---- MODULE Spec2Model ----
(***************************************************************************)
(* A model of the UNS payload publishers (examples/pump_mqtt_publisher.py  *)
(* and examples/tank_mqtt_publisher.py): the schema registry, the          *)
(* topic/payload classifier, the validation gate and the publish pipeline. *)
(*                                                                         *)
(* A topic is a Python str.  It is modelled as a sequence of tokens: the   *)
(* token "/" and word tokens.  Every keyword the classifier looks for is   *)
(* one token; "production" is the two tokens "product","ion" and "assets"  *)
(* is "asset","x", so that Python's substring test `pat in topic` is the   *)
(* contiguous-subsequence test on token sequences.                         *)
(***************************************************************************)
EXTENDS Integers, Sequences, FiniteSets, TLC

\* Python's None (an unset schema_name, a missing return value).
None == "None"

\* Bounds of the model.
MaxSegs == 4          \* segments of a topic when the topic rules are exercised
ShapeMaxSegs == 1     \* segments of a topic when the payload shapes are exercised
MaxIdKeys == 2        \* `*Id` keys one payload carries
PubMaxSegs == 3       \* segments of a topic when the whole pipeline is exercised
MaxLoadFailures == 1  \* schema files that fail to load
MaxPumps == 2         \* assets swept (of the three of PUMPS)
MaxBucketItems == 2   \* payloads one value generator returns (of its five to seven)
MaxCycles == 2        \* the cycle counter stops counting here

\* ------------------------------------------------------------------------
\* Strings
\* ------------------------------------------------------------------------

\* Python's `pat in s` on str: pat occurs as a contiguous substring of s.
Contains(pat, s) ==
    \E i \in 0..(Len(s) - Len(pat)) : SubSeq(s, i + 1, i + Len(pat)) = pat

\* "/".join(segs): the f-strings of the publishing loop build topics this way.
RECURSIVE Join(_)
Join(segs) ==
    IF segs = << >> THEN << >>
    ELSE IF Len(segs) = 1 THEN segs[1]
    ELSE segs[1] \o <<"/">> \o Join(Tail(segs))

\* topic.split("/"), by position: the places of the slashes with both ends of
\* the string, and the segment that starts after the cut at place a.
Cuts(s) == {0} \cup {i \in 1..Len(s) : s[i] = "/"} \cup {Len(s) + 1}
NextCut(cuts, a) == CHOOSE b \in cuts : b > a /\ \A c \in cuts : c > a => b <= c
SegmentAfter(s, cuts, a) == SubSeq(s, a + 1, NextCut(cuts, a) - 1)

\* ------------------------------------------------------------------------
\* Classification (publish_payload, first half)
\* ------------------------------------------------------------------------

SchemaNames ==
    {"asset", "alert", "state", "measurement", "count", "kpi",
     "product", "production", "reading", "value"}

\* Mutant of ClassifyTopic: the count rule is tested before the measurement rule.
ClassifyTopic_CountFirst(topic) ==
    IF Contains(<<"/", "edge", "/">>, topic) THEN "reading"
    ELSE IF Contains(<<"/", "reading", "/">>, topic) THEN "reading"
    ELSE IF Contains(<<"/", "count", "/">>, topic) THEN "count"
    ELSE IF Contains(<<"/", "measurement", "/">>, topic) THEN "measurement"
    ELSE IF Contains(<<"/", "kpi", "/">>, topic) THEN "kpi"
    ELSE IF Contains(<<"/", "asset">>, topic) THEN "asset"
    ELSE IF Contains(<<"/", "alert">>, topic) THEN "alert"
    ELSE IF Contains(<<"/", "state">>, topic) THEN "state"
    ELSE IF Contains(<<"/", "product">>, topic)
            /\ ~Contains(<<"/", "product", "ion">>, topic) THEN "product"
    ELSE IF Contains(<<"/", "product", "ion">>, topic) THEN "production"
    ELSE IF Contains(<<"/", "value">>, topic) THEN "value"
    ELSE None

\* Mutant of ClassifyTopic: the reading rule is tested after the asset rule.
ClassifyTopic_ReadingLate(topic) ==
    IF Contains(<<"/", "edge", "/">>, topic) THEN "reading"
    ELSE IF Contains(<<"/", "measurement", "/">>, topic) THEN "measurement"
    ELSE IF Contains(<<"/", "count", "/">>, topic) THEN "count"
    ELSE IF Contains(<<"/", "kpi", "/">>, topic) THEN "kpi"
    ELSE IF Contains(<<"/", "asset">>, topic) THEN "asset"
    ELSE IF Contains(<<"/", "reading", "/">>, topic) THEN "reading"
    ELSE IF Contains(<<"/", "alert">>, topic) THEN "alert"
    ELSE IF Contains(<<"/", "state">>, topic) THEN "state"
    ELSE IF Contains(<<"/", "product">>, topic)
            /\ ~Contains(<<"/", "product", "ion">>, topic) THEN "product"
    ELSE IF Contains(<<"/", "product", "ion">>, topic) THEN "production"
    ELSE IF Contains(<<"/", "value">>, topic) THEN "value"
    ELSE None

\* Mutant of ClassifyTopic: the product rule lacks its `not in` clause.
ClassifyTopic_NoExclusion(topic) ==
    IF Contains(<<"/", "edge", "/">>, topic) THEN "reading"
    ELSE IF Contains(<<"/", "reading", "/">>, topic) THEN "reading"
    ELSE IF Contains(<<"/", "measurement", "/">>, topic) THEN "measurement"
    ELSE IF Contains(<<"/", "count", "/">>, topic) THEN "count"
    ELSE IF Contains(<<"/", "kpi", "/">>, topic) THEN "kpi"
    ELSE IF Contains(<<"/", "asset">>, topic) THEN "asset"
    ELSE IF Contains(<<"/", "alert">>, topic) THEN "alert"
    ELSE IF Contains(<<"/", "state">>, topic) THEN "state"
    ELSE IF Contains(<<"/", "product">>, topic) THEN "product"
    ELSE IF Contains(<<"/", "product", "ion">>, topic) THEN "production"
    ELSE IF Contains(<<"/", "value">>, topic) THEN "value"
    ELSE None

\* Topic-based detection: the if/elif chain on substrings of the topic.
ClassifyTopic(topic) ==
    IF Contains(<<"/", "edge", "/">>, topic) THEN "reading"
    ELSE IF Contains(<<"/", "reading", "/">>, topic) THEN "reading"
    ELSE IF Contains(<<"/", "measurement", "/">>, topic) THEN "measurement"
    ELSE IF Contains(<<"/", "count", "/">>, topic) THEN "count"
    ELSE IF Contains(<<"/", "kpi", "/">>, topic) THEN "kpi"
    ELSE IF Contains(<<"/", "asset">>, topic) THEN "asset"
    ELSE IF Contains(<<"/", "alert">>, topic) THEN "alert"
    ELSE IF Contains(<<"/", "state">>, topic) THEN "state"
    ELSE IF Contains(<<"/", "product">>, topic)
            /\ ~Contains(<<"/", "product", "ion">>, topic) THEN "product"
    ELSE IF Contains(<<"/", "product", "ion">>, topic) THEN "production"
    ELSE IF Contains(<<"/", "value">>, topic) THEN "value"
    ELSE None

\* Mutant of ClassifyShape: kpiId is tested before countId.
ClassifyShape_KpiBeforeCount(payload) ==
    IF "assetId" \in payload.keys THEN "asset"
    ELSE IF "alertId" \in payload.keys THEN "alert"
    ELSE IF "stateId" \in payload.keys THEN "state"
    ELSE IF "measurementId" \in payload.keys THEN "measurement"
    ELSE IF "kpiId" \in payload.keys THEN "kpi"
    ELSE IF "countId" \in payload.keys THEN "count"
    ELSE IF "productId" \in payload.keys THEN "product"
    ELSE IF "productionId" \in payload.keys THEN "production"
    ELSE IF "valueId" \in payload.keys THEN "value"
    ELSE IF "type" \in payload.keys /\ "value" \in payload.keys
            /\ "unit" \in payload.keys THEN "reading"
    ELSE None

\* Mutant of ClassifyShape: kpiId is tested after productId.
ClassifyShape_KpiAfterProduct(payload) ==
    IF "assetId" \in payload.keys THEN "asset"
    ELSE IF "alertId" \in payload.keys THEN "alert"
    ELSE IF "stateId" \in payload.keys THEN "state"
    ELSE IF "measurementId" \in payload.keys THEN "measurement"
    ELSE IF "countId" \in payload.keys THEN "count"
    ELSE IF "productId" \in payload.keys THEN "product"
    ELSE IF "kpiId" \in payload.keys THEN "kpi"
    ELSE IF "productionId" \in payload.keys THEN "production"
    ELSE IF "valueId" \in payload.keys THEN "value"
    ELSE IF "type" \in payload.keys /\ "value" \in payload.keys
            /\ "unit" \in payload.keys THEN "reading"
    ELSE None

\* Fallback on the payload's top-level keys (`key in payload` on a dict).
ClassifyShape(payload) ==
    IF "assetId" \in payload.keys THEN "asset"
    ELSE IF "alertId" \in payload.keys THEN "alert"
    ELSE IF "stateId" \in payload.keys THEN "state"
    ELSE IF "measurementId" \in payload.keys THEN "measurement"
    ELSE IF "countId" \in payload.keys THEN "count"
    ELSE IF "kpiId" \in payload.keys THEN "kpi"
    ELSE IF "productId" \in payload.keys THEN "product"
    ELSE IF "productionId" \in payload.keys THEN "production"
    ELSE IF "valueId" \in payload.keys THEN "value"
    ELSE IF "type" \in payload.keys /\ "value" \in payload.keys
            /\ "unit" \in payload.keys THEN "reading"
    ELSE None

\* A classifier that looks at the payload first and at the topic only when
\* the payload has no signal.
ClassifySchema_ShapeFirst(topic, payload) ==
    IF ClassifyShape(payload) # None THEN ClassifyShape(payload)
    ELSE ClassifyTopic(topic)

\* schema_name after both detection stages: the fallback runs only when the
\* topic stage left schema_name unset (`if not schema_name`).
ClassifySchema(topic, payload) ==
    IF ClassifyTopic(topic) # None THEN ClassifyTopic(topic)
    ELSE ClassifyShape(payload)

\* ------------------------------------------------------------------------
\* Schema registry and validation gate
\* ------------------------------------------------------------------------

\* `schema_name not in schemas`: the name has no entry in the dict.
Absent == [loaded |-> FALSE, required |-> {}]

\* The required top-level fields of the schema documents of the schema store.
\* Only the measurement schema's `unit` requirement is documented.
StoreRequired(name) == IF name = "measurement" THEN {"unit"} ELSE {}

\* The top-level keys the shape fallback looks for.
IdKeys ==
    {"assetId", "alertId", "stateId", "measurementId", "countId", "kpiId",
     "productId", "productionId", "valueId"}
ReadingKeys == {"type", "value", "unit"}

\* json.load of one schema file of the store.
StoreDocument(name) == [loaded |-> TRUE, required |-> StoreRequired(name)]

\* A validator that checks the types of the values only.
SchemaAccepts_TypesOnly(payload, doc) == payload.wellTyped

\* jsonschema.validate(instance=payload, schema=doc) returns (TRUE) or raises
\* ValidationError (FALSE): every required field is present and the values
\* satisfy the remaining constraints of the document.
SchemaAccepts(payload, doc) ==
    doc.required \subseteq payload.keys /\ payload.wellTyped

\* Line 147, the path validate_payload prints for the ValidationError that
\* validate raises: "root" for an empty absolute_path (the error is on the
\* payload object itself, as for a missing top-level required key, which
\* validate reports before errors deeper in the payload), else the keys
\* leading to the offending value.
ValidationPath(payload, doc) ==
    IF ~(doc.required \subseteq payload.keys) THEN "root" ELSE "nested"

\* Mutant of validate_payload: a name without schema is rejected.
validate_payload_AbsentFails(payload, name, schemas) ==
    IF ~schemas[name].loaded
    THEN [ok |-> FALSE, events |-> {"warn_no_schema"}]
    ELSE IF SchemaAccepts(payload, schemas[name])
    THEN [ok |-> TRUE, events |-> {}]
    ELSE [ok |-> FALSE, events |-> {"err_validation"}]

\* Mutant of validate_payload: the ValidationError is swallowed.
validate_payload_ErrorIgnored(payload, name, schemas) ==
    IF ~schemas[name].loaded
    THEN [ok |-> TRUE, events |-> {"warn_no_schema"}]
    ELSE IF SchemaAccepts(payload, schemas[name])
    THEN [ok |-> TRUE, events |-> {}]
    ELSE [ok |-> TRUE, events |-> {"err_validation"}]

\* validate_payload: [ok |-> the returned bool, events |-> what it logs].
validate_payload(payload, name, schemas) ==
    IF ~schemas[name].loaded
    THEN [ok |-> TRUE, events |-> {"warn_no_schema"}]
    ELSE IF SchemaAccepts(payload, schemas[name])
    THEN [ok |-> TRUE, events |-> {}]
    ELSE [ok |-> FALSE, events |-> {"err_validation"}]

\* mqtt.MQTT_ERR_SUCCESS and the other codes client.publish returns, by name.
MQTT_ERR_SUCCESS == "MQTT_ERR_SUCCESS"
ReturnCodes == {MQTT_ERR_SUCCESS, "MQTT_ERR_NO_CONN", "MQTT_ERR_QUEUE_SIZE"}

\* ------------------------------------------------------------------------
\* State
\* ------------------------------------------------------------------------

VARIABLES
    SCHEMAS,      \* the module-level registry: schema name -> document | Absent
    topic,        \* publish_payload: the topic argument
    payload,      \* publish_payload: the payload argument
    schema_name,  \* publish_payload: the local schema_name
    pc,           \* publish_payload: where the call is
    rc,           \* publish_payload: result.rc of client.publish
    handed,       \* client.publish was called for this payload
    log,          \* what this call logged and printed
    result,       \* what the call returned ("True", "False") or "raised"
    lpc,          \* the script: where module load and publish_pump_data are
    loadIdx,      \* load_schemas: the schema file read next
    cycle,        \* publish_pump_data: cycle
    pump,         \* publish_pump_data: index of `pump` in PUMPS
    stype,        \* publish_pump_data: index of schema_type in SCHEMA_PAYLOADS
    bucket,       \* publish_pump_data: index of value_type in VALUE_PAYLOADS
    item,         \* publish_pump_data: index in value_payloads
    attempted,    \* topics publish_payload was called with for the current pump
    reported,     \* topics the loop printed a line for, for the current pump
    report,       \* the line the loop printed for the last item
    env,          \* the settings read from the environment when the module loads
    module_client,\* the module-level `client` (lines 179-201)
    client,       \* publish_pump_data: the local `client`
    calls         \* classify/validate calls run side by side: call id -> locals

pubVars == <<topic, payload, schema_name, pc, rc, handed, log, result>>
loopVars == <<lpc, loadIdx, cycle, pump, stype, bucket, item, attempted, reported,
              report>>
vars == <<SCHEMAS, topic, payload, schema_name, pc, rc, handed, log, result,
          lpc, loadIdx, cycle, pump, stype, bucket, item, attempted, reported, report,
          env, module_client, client, calls>>
auxVars == <<env, module_client, client, calls>>

\* ------------------------------------------------------------------------
\* Settings and MQTT clients
\* ------------------------------------------------------------------------

\* Lines 33-61 with nothing set in the environment: the defaults of os.getenv.
DefaultEnv ==
    [client_id |-> "uns-payload-example", use_auth |-> FALSE, username |-> "",
     password |-> "", use_tls |-> FALSE, ca_cert_path |-> "",
     client_cert_path |-> "", client_key_path |-> ""]

\* No mqtt.Client object yet.
NoClient ==
    [created |-> FALSE, client_id |-> "", credentials |-> FALSE, tls |-> "off",
     link |-> "new", released |-> "no"]

\* mqtt.Client(client_id=...): an empty id makes the library generate one.
NewClient(id) == [NoClient EXCEPT !.created = TRUE, !.client_id = id]

\* Lines 185-201: username_pw_set under MQTT_USE_AUTH with both strings
\* non-empty; under MQTT_USE_TLS, tls_set with the three paths when all are
\* set, else tls_set() and tls_insecure_set(True).
ModuleSettings(e, c) ==
    [c EXCEPT
       !.credentials = e.use_auth /\ e.username # "" /\ e.password # "",
       !.tls = IF ~e.use_tls THEN "off"
               ELSE IF e.ca_cert_path # "" /\ e.client_cert_path # ""
                       /\ e.client_key_path # ""
                    THEN "certs"
                    ELSE "insecure"]

\* Lines 775-782: username_pw_set whenever both strings are non-empty; under
\* MQTT_USE_TLS a bare tls_set() (system CA store, verification on).
LocalSettings(e, c) ==
    [c EXCEPT
       !.credentials = e.username # "" /\ e.password # "",
       !.tls = IF e.use_tls THEN "default" ELSE "off"]

\* No calls are run side by side.
NoCalls == << >>

\* ------------------------------------------------------------------------
\* publish_payload, one action per stage
\* ------------------------------------------------------------------------

\* A classifier that takes the *Id keys it looked at out of the payload.
Classify_ConsumesIds ==
    /\ pc = "classifying"
    /\ schema_name' = ClassifySchema(topic, payload)
    /\ payload' = [payload EXCEPT !.keys = payload.keys \ IdKeys]
    /\ pc' = "validating"
    /\ UNCHANGED <<SCHEMAS, topic, rc, handed, log, result, loopVars>>
    /\ UNCHANGED auxVars

\* A publish_payload that serializes right after classifying, without the gate.
Classify_SkipsGate ==
    /\ pc = "classifying"
    /\ schema_name' = ClassifySchema(topic, payload)
    /\ pc' = "serializing"
    /\ UNCHANGED <<SCHEMAS, topic, payload, rc, handed, log, result, loopVars>>
    /\ UNCHANGED auxVars

\* Lines 833-882: determine schema_name from the topic, then from the payload.
Classify ==
    /\ pc = "classifying"
    /\ schema_name' = ClassifySchema(topic, payload)
    /\ pc' = "validating"
    /\ UNCHANGED <<SCHEMAS, topic, payload, rc, handed, log, result, loopVars>>
    /\ UNCHANGED auxVars

\* Mutant of Validate: a payload without schema name is not published.
Validate_UnknownBlocks ==
    /\ pc = "validating"
    /\ IF schema_name # None
       THEN LET v == validate_payload(payload, schema_name, SCHEMAS) IN
            IF ~v.ok
            THEN /\ log' = log \cup v.events \cup {"err_not_publishing"}
                 /\ result' = "False"
                 /\ pc' = "rejected"
            ELSE /\ log' = log \cup v.events
                 /\ pc' = "serializing"
                 /\ UNCHANGED result
       ELSE /\ log' = log \cup {"warn_undetermined"}
            /\ result' = "False"
            /\ pc' = "rejected"
    /\ UNCHANGED <<SCHEMAS, topic, payload, schema_name, rc, handed, loopVars>>
    /\ UNCHANGED auxVars

\* A gate that drops the schema a payload failed against from the registry.
Validate_DropsSchema ==
    /\ pc = "validating"
    /\ IF schema_name # None
       THEN LET v == validate_payload(payload, schema_name, SCHEMAS) IN
            IF ~v.ok
            THEN /\ log' = log \cup v.events \cup {"err_not_publishing"}
                 /\ result' = "False"
                 /\ pc' = "rejected"
                 /\ SCHEMAS' = [SCHEMAS EXCEPT ![schema_name] = Absent]
            ELSE /\ log' = log \cup v.events
                 /\ pc' = "serializing"
                 /\ UNCHANGED <<result, SCHEMAS>>
       ELSE /\ log' = log \cup {"warn_undetermined"}
            /\ pc' = "serializing"
            /\ UNCHANGED <<result, SCHEMAS>>
    /\ UNCHANGED <<topic, payload, schema_name, rc, handed, loopVars>>
    /\ UNCHANGED auxVars

\* Lines 884-890: the validation gate.
Validate ==
    /\ pc = "validating"
    /\ IF schema_name # None
       THEN LET v == validate_payload(payload, schema_name, SCHEMAS) IN
            IF ~v.ok
            THEN /\ log' = log \cup v.events \cup {"err_not_publishing"}
                 /\ result' = "False"
                 /\ pc' = "rejected"
            ELSE /\ log' = log \cup v.events
                 /\ pc' = "serializing"
                 /\ UNCHANGED result
       ELSE /\ log' = log \cup {"warn_undetermined"}
            /\ pc' = "serializing"
            /\ UNCHANGED result
    /\ UNCHANGED <<SCHEMAS, topic, payload, schema_name, rc, handed, loopVars>>
    /\ UNCHANGED auxVars

\* Line 893: json.dumps(payload, indent=2); raises TypeError on a value that
\* is not JSON serializable.
Serialize ==
    /\ pc = "serializing"
    /\ IF payload.serializable
       THEN pc' = "sending" /\ UNCHANGED result
       ELSE pc' = "raised" /\ result' = "raised"
    /\ UNCHANGED <<SCHEMAS, topic, payload, schema_name, rc, handed, log, loopVars>>
    /\ UNCHANGED auxVars

\* Line 896: client.publish(topic, payload_json, qos=MQTT_QOS) returns a
\* result with a return code, or raises (ValueError on a topic or payload
\* the client refuses).
Send ==
    /\ pc = "sending"
    /\ handed' = TRUE
    /\ \/ \E code \in ReturnCodes : rc' = code /\ pc' = "sent" /\ UNCHANGED result
       \/ rc' = rc /\ pc' = "raised" /\ result' = "raised"
    /\ UNCHANGED <<SCHEMAS, topic, payload, schema_name, log, loopVars>>
    /\ UNCHANGED auxVars

\* A publish that reports success only once the broker's acknowledgment
\* has been seen by on_publish.
Report_WaitsForAck ==
    /\ pc = "sent"
    /\ rc = MQTT_ERR_SUCCESS => "dbg_published_mid" \in log
    /\ IF rc = MQTT_ERR_SUCCESS
       THEN /\ log' = log \cup {"info_published"}
            /\ result' = "True"
            /\ pc' = "reported_ok"
       ELSE /\ log' = log \cup {"err_publish_failed"}
            /\ result' = "False"
            /\ pc' = "reported_fail"
    /\ UNCHANGED <<SCHEMAS, topic, payload, schema_name, rc, handed, loopVars>>
    /\ UNCHANGED auxVars

\* Lines 898-904: the return value follows the return code.
Report ==
    /\ pc = "sent"
    /\ IF rc = MQTT_ERR_SUCCESS
       THEN /\ log' = log \cup {"info_published"}
            /\ result' = "True"
            /\ pc' = "reported_ok"
       ELSE /\ log' = log \cup {"err_publish_failed"}
            /\ result' = "False"
            /\ pc' = "reported_fail"
    /\ UNCHANGED <<SCHEMAS, topic, payload, schema_name, rc, handed, loopVars>>
    /\ UNCHANGED auxVars

PublishStep == Classify \/ Validate \/ Serialize \/ Send \/ Report

\* Lines 169-172: on_publish, called on the network thread once the message
\* the transport accepted has gone out; it logs and prints the message id.
OnPublish ==
    /\ handed
    /\ rc = MQTT_ERR_SUCCESS
    /\ pc \in {"sent", "reported_ok"}
    /\ "dbg_published_mid" \notin log
    /\ log' = log \cup {"dbg_published_mid"}
    /\ UNCHANGED <<SCHEMAS, topic, payload, schema_name, pc, rc, handed, result, loopVars>>
    /\ UNCHANGED auxVars

Payload(keys, wellTyped, serializable) ==
    [keys |-> keys, wellTyped |-> wellTyped, serializable |-> serializable]

\* The state of a call that is about to run with the given arguments.
Entered(t, p) ==
    /\ topic = t
    /\ payload = p
    /\ schema_name = None
    /\ pc = "classifying"
    /\ rc = None
    /\ handed = FALSE
    /\ log = {}
    /\ result = None

\* No call is running: the locals of publish_payload do not exist.
Idle ==
    /\ topic = << >>
    /\ payload = Payload({}, TRUE, TRUE)
    /\ schema_name = None
    /\ pc = "idle"
    /\ rc = None
    /\ handed = FALSE
    /\ log = {}
    /\ result = None

\* The script is not running: a call is exercised on its own.
NoScript ==
    /\ lpc = "none"
    /\ loadIdx = 0
    /\ cycle = 0
    /\ pump = 0
    /\ stype = 0
    /\ bucket = 0
    /\ item = 0
    /\ attempted = {}
    /\ reported = {}
    /\ report = None
    /\ env = DefaultEnv
    /\ module_client = NoClient
    /\ client = NoClient
    /\ calls = NoCalls

\* ------------------------------------------------------------------------
\* Inputs
\* ------------------------------------------------------------------------

\* Topic segments: every keyword of the classifier, "production", a segment
\* without keyword and one that only starts with a keyword ("assets").
Words ==
    {<<"edge">>, <<"reading">>, <<"measurement">>, <<"count">>, <<"kpi">>,
     <<"asset">>, <<"alert">>, <<"state">>, <<"product">>,
     <<"product", "ion">>, <<"value">>, <<"x">>, <<"asset", "x">>}

\* The segment lists of at most n segments; the topic is their Join.
SegmentLists(n) == UNION {[1..k -> Words] : k \in 1..n}

PayloadKeySets ==
    {I \cup R : I \in {S \in SUBSET IdKeys : Cardinality(S) <= MaxIdKeys},
                R \in SUBSET ReadingKeys}
ProbeKeySets == {{}, {"assetId", "kpiId"} \cup ReadingKeys}

\* The registry when every schema file of the store loaded.
FullRegistry == [n \in SchemaNames |-> StoreDocument(n)]

\* ------------------------------------------------------------------------
\* SpecClassify: the classifier applied to bounded topics and payloads
\* ------------------------------------------------------------------------

\* Long topics with a few payloads, and short topics (which match no topic
\* rule often) with every payload.
InitClassify ==
    /\ SCHEMAS = FullRegistry
    /\ NoScript
    /\ \/ \E segs \in SegmentLists(MaxSegs) : \E keys \in ProbeKeySets :
            Entered(Join(segs), Payload(keys, TRUE, TRUE))
       \/ \E segs \in SegmentLists(ShapeMaxSegs) : \E keys \in PayloadKeySets :
            Entered(Join(segs), Payload(keys, TRUE, TRUE))

NextClassify == Classify

SpecClassify == InitClassify /\ [][NextClassify]_vars

\* ------------------------------------------------------------------------
\* SpecPublish: one publish_payload call on bounded arguments and registries
\* ------------------------------------------------------------------------

\* The registries load_schemas can return with at most k files failing.
Registries(k) ==
    {[n \in SchemaNames |-> IF n \in missing THEN Absent ELSE StoreDocument(n)] :
        missing \in {S \in SUBSET SchemaNames : Cardinality(S) <= k}}

PubWords == {<<"x">>, <<"measurement">>, <<"asset">>, <<"edge">>}
PubSegmentLists == UNION {[1..k -> PubWords] : k \in 1..PubMaxSegs}
PubKeySets == {{}, {"unit"}, {"type", "value"}, ReadingKeys, {"measurementId"}}

InitPublish ==
    /\ SCHEMAS \in Registries(MaxLoadFailures)
    /\ NoScript
    /\ \E segs \in PubSegmentLists : \E keys \in PubKeySets :
       \E wellTyped \in BOOLEAN : \E serializable \in BOOLEAN :
            Entered(Join(segs), Payload(keys, wellTyped, serializable))

NextPublish == PublishStep \/ OnPublish

SpecPublish == InitPublish /\ [][NextPublish]_vars

\* ------------------------------------------------------------------------
\* The script: load_schemas at import, then publish_pump_data
\* ------------------------------------------------------------------------

\* schema_files, in the order the dict is iterated.
SchemaFiles ==
    <<"asset", "alert", "state", "measurement", "count", "kpi",
      "product", "production", "reading", "value">>

\* SCHEMA_PAYLOADS and VALUE_PAYLOADS, in the order the dicts are iterated.
SCHEMA_PAYLOADS == <<"asset", "state", "alert", "product", "production", "value">>
VALUE_PAYLOADS == <<"measurement", "count", "kpi", "edge">>

\* pump['name'].lower() of the entries of PUMPS.
PumpNames == <<"pump-101", "pump-102", "pump-103">>

\* The topic_suffix of the payloads a value generator returns, named by
\* position in the returned list (the lists are longer than MaxBucketItems and
\* no suffix holds a keyword of the topic rules behind a slash).
Suffixes == <<"suffix-1", "suffix-2", "suffix-3">>

\* A schema type or value type as it is written into the topic.
TypeWord(name) == IF name = "production" THEN <<"product", "ion">> ELSE <<name>>

\* base_topic with the default MQTT_TOPIC_* segments.
BaseTopic(p) ==
    Join(<< <<"abelara">>, <<"plant1">>, <<"utilities">>, <<"water-system">>,
            <<"pump-station">>, <<PumpNames[p]>> >>)

\* f"{base_topic}/{schema_type}" and f"{base_topic}/{value_type}/{topic_suffix}".
PlainTopic(p, t) == BaseTopic(p) \o <<"/">> \o TypeWord(SCHEMA_PAYLOADS[t])
ValueTopic(p, b, i) ==
    BaseTopic(p) \o <<"/">> \o TypeWord(VALUE_PAYLOADS[b]) \o <<"/", Suffixes[i]>>

\* The top-level keys of the dict each generator builds.
GeneratedKeys(name) ==
    CASE name = "asset" ->
           {"timestamp", "id", "name", "description", "assetType", "parentAsset",
            "metadata"}
      [] name = "state" -> {"timestamp", "description", "color", "type", "metadata"}
      [] name = "alert" -> {"timestamp", "severity", "code", "message", "metadata"}
      [] name = "product" ->
           {"timestamp", "id", "name", "description", "idealCycleTime", "tolerance",
            "unit", "family", "metadata"}
      [] name = "production" ->
           {"timestamp", "start_ts", "end_ts", "counts", "metadata"}
      [] name = "measurement" ->
           {"timestamp", "type", "value", "unit", "target", "tolerance",
            "inTolerance", "metadata", "product", "productionContext"}
      [] name = "count" -> {"timestamp", "value", "unit", "type", "metadata"}
      [] name = "kpi" -> {"timestamp", "value", "unit", "type", "product", "metadata"}
      [] name = "edge" -> {"timestamp", "type", "value", "unit", "metadata"}

\* The payloads a generator can return: its keys are fixed, its values are
\* JSON values; whether they satisfy the schema document is not decided by
\* the script.
Generated(name) == {Payload(GeneratedKeys(name), w, TRUE) : w \in BOOLEAN}

\* Every topic the sweep over one pump calls publish_payload with.
PumpTopics(p) ==
    {PlainTopic(p, t) : t \in 1..(Len(SCHEMA_PAYLOADS) - 1)}
        \cup {ValueTopic(p, b, i) : b \in 1..Len(VALUE_PAYLOADS), i \in 1..MaxBucketItems}

\* The call publish_payload(client, t, p) begins.
Call(t, p) ==
    /\ topic' = t
    /\ payload' = p
    /\ schema_name' = None
    /\ pc' = "classifying"
    /\ rc' = None
    /\ handed' = FALSE
    /\ log' = {}
    /\ result' = None
    /\ attempted' = attempted \cup {t}
    /\ UNCHANGED reported
    /\ report' = None

\* The frame of publish_payload is gone.
Unwind ==
    /\ topic' = << >>
    /\ payload' = Payload({}, TRUE, TRUE)
    /\ schema_name' = None
    /\ pc' = "idle"
    /\ rc' = None
    /\ handed' = FALSE
    /\ log' = {}
    /\ result' = None

\* A load_schemas whose first unreadable file ends the whole load.
LoadSchema_AbortsOnFailure ==
    /\ lpc = "load"
    /\ loadIdx <= Len(SchemaFiles)
    /\ \/ /\ SCHEMAS' = [SCHEMAS EXCEPT ![SchemaFiles[loadIdx]] =
                                            StoreDocument(SchemaFiles[loadIdx])]
          /\ loadIdx' = loadIdx + 1
          /\ lpc' = IF loadIdx = Len(SchemaFiles) THEN "module_client" ELSE "load"
       \/ /\ Cardinality({n \in SchemaNames : ~SCHEMAS[n].loaded}) - (Len(SchemaFiles) - loadIdx)
               <= MaxLoadFailures
          /\ UNCHANGED <<SCHEMAS, loadIdx>>
          /\ lpc' = "module_client"
    /\ UNCHANGED <<pubVars, cycle, pump, stype, bucket, item, attempted, reported, report>>
    /\ UNCHANGED auxVars

\* load_schemas, one file per step: the file loads, or reading or parsing it
\* raises and the name gets no entry.
LoadSchema ==
    /\ lpc = "load"
    /\ loadIdx <= Len(SchemaFiles)
    /\ \/ SCHEMAS' = [SCHEMAS EXCEPT ![SchemaFiles[loadIdx]] =
                                         StoreDocument(SchemaFiles[loadIdx])]
       \/ /\ Cardinality({n \in SchemaNames : ~SCHEMAS[n].loaded}) - (Len(SchemaFiles) - loadIdx)
               <= MaxLoadFailures
          /\ UNCHANGED SCHEMAS
    /\ loadIdx' = loadIdx + 1
    /\ lpc' = IF loadIdx = Len(SchemaFiles) THEN "module_client" ELSE "load"
    /\ UNCHANGED <<pubVars, cycle, pump, stype, bucket, item, attempted, reported, report>>
    /\ UNCHANGED auxVars

\* Lines 179-201: the module-level client is created and configured.
ModuleClient ==
    /\ lpc = "module_client"
    /\ module_client' = ModuleSettings(env, NewClient(env.client_id))
    /\ lpc' = "create_client"
    /\ UNCHANGED <<SCHEMAS, pubVars, loadIdx, cycle, pump, stype, bucket, item,
                   attempted, reported, report, env, client, calls>>

\* Lines 766-773: publish_pump_data creates its own client, mqtt.Client()
\* without client id, and sets the callbacks.
CreateClient ==
    /\ lpc = "create_client"
    /\ client' = NewClient("")
    /\ lpc' = "configure"
    /\ UNCHANGED <<SCHEMAS, pubVars, loadIdx, cycle, pump, stype, bucket, item,
                   attempted, reported, report, env, module_client, calls>>

\* Lines 775-782: authentication and TLS of the local client.
ConfigureClient ==
    /\ lpc = "configure"
    /\ client' = LocalSettings(env, client)
    /\ lpc' = "connect"
    /\ UNCHANGED <<SCHEMAS, pubVars, loadIdx, cycle, pump, stype, bucket, item,
                   attempted, reported, report, env, module_client, calls>>

\* KeyboardInterrupt in publish_pump_data before the `try` of line 784: no
\* handler and no `finally` clause encloses these lines, the exception leaves
\* the function and ends the script with a traceback.
InterruptBeforeTry ==
    /\ lpc \in {"create_client", "configure"}
    /\ lpc' = "killed"
    /\ report' = "traceback"
    /\ UNCHANGED <<SCHEMAS, pubVars, loadIdx, cycle, pump, stype, bucket, item,
                   attempted, reported>>
    /\ UNCHANGED auxVars

\* Line 785: client.connect returns, or raises when the broker cannot be
\* reached; lines 786-788 follow a successful connect.
Connect ==
    /\ lpc = "connect"
    /\ \/ /\ lpc' = "cycle"
          /\ client' = [client EXCEPT !.link = "connecting"]
          /\ UNCHANGED report
       \/ /\ lpc' = "conn_failed"
          /\ report' = "connection_failed"
          /\ UNCHANGED client
    /\ UNCHANGED <<SCHEMAS, pubVars, loadIdx, cycle, pump, stype, bucket, item,
                   attempted, reported, env, module_client, calls>>

\* Lines 789-791: the head of `while True`.
Cycle ==
    /\ lpc = "cycle"
    /\ cycle' = IF cycle < MaxCycles THEN cycle + 1 ELSE cycle
    /\ pump' = 1
    /\ attempted' = {}
    /\ reported' = {}
    /\ lpc' = "pump"
    /\ UNCHANGED <<SCHEMAS, pubVars, loadIdx, stype, bucket, item, report>>
    /\ UNCHANGED auxVars

\* Lines 792-795: the head of `for pump in PUMPS`.
ForPump ==
    /\ lpc = "pump"
    /\ IF pump <= MaxPumps
       THEN /\ stype' = 1
            /\ attempted' = {}
            /\ reported' = {}
            /\ lpc' = "type"
       ELSE /\ lpc' = "wait"
            /\ UNCHANGED <<stype, attempted, reported>>
    /\ UNCHANGED <<SCHEMAS, pubVars, loadIdx, cycle, pump, bucket, item, report>>
    /\ UNCHANGED auxVars

\* Lines 796-799 and 810-812: the head of `for schema_type`, the `try`, and
\* for a type other than "value" the generated payload and the call.
ForType ==
    /\ lpc = "type"
    /\ IF stype > Len(SCHEMA_PAYLOADS)
       THEN /\ pump' = pump + 1
            /\ lpc' = "pump"
            /\ UNCHANGED <<pubVars, stype, bucket, attempted, reported, report>>
       ELSE IF SCHEMA_PAYLOADS[stype] = "value"
       THEN /\ bucket' = 1
            /\ lpc' = "bucket"
            /\ UNCHANGED <<pubVars, pump, stype, attempted, reported, report>>
       ELSE /\ \E p \in Generated(SCHEMA_PAYLOADS[stype]) : Call(PlainTopic(pump, stype), p)
            /\ lpc' = "call"
            /\ UNCHANGED <<pump, stype, bucket>>
    /\ UNCHANGED <<SCHEMAS, loadIdx, cycle, item>>
    /\ UNCHANGED auxVars

\* Lines 800-802: the head of `for value_type` and the generator call.
ForBucket ==
    /\ lpc = "bucket"
    /\ IF bucket > Len(VALUE_PAYLOADS)
       THEN /\ stype' = stype + 1
            /\ bucket' = 0
            /\ item' = 0
            /\ lpc' = "type"
       ELSE /\ item' = 1
            /\ lpc' = "item"
            /\ UNCHANGED <<stype, bucket>>
    /\ UNCHANGED <<SCHEMAS, pubVars, loadIdx, cycle, pump, attempted, reported, report>>
    /\ UNCHANGED auxVars

\* A loop that starts the call for an item while the call before it is
\* still running.
ForItem_Overlaps ==
    /\ \/ lpc = "item"
       \/ lpc = "call" /\ bucket >= 1 /\ pc = "validating"
    /\ IF item > MaxBucketItems
       THEN /\ bucket' = bucket + 1
            /\ lpc' = "bucket"
            /\ UNCHANGED <<pubVars, item, attempted, reported, report>>
       ELSE /\ \E p \in Generated(VALUE_PAYLOADS[bucket]) :
                 Call(ValueTopic(pump, bucket, item), p)
            /\ lpc' = "call"
            /\ UNCHANGED <<bucket, item>>
    /\ UNCHANGED <<SCHEMAS, loadIdx, cycle, pump, stype>>
    /\ UNCHANGED auxVars

\* Lines 803-805: the head of `for ... in value_payloads` and the call.
ForItem ==
    /\ lpc = "item"
    /\ IF item > MaxBucketItems
       THEN /\ bucket' = bucket + 1
            /\ lpc' = "bucket"
            /\ UNCHANGED <<pubVars, item, attempted, reported, report>>
       ELSE /\ \E p \in Generated(VALUE_PAYLOADS[bucket]) :
                 Call(ValueTopic(pump, bucket, item), p)
            /\ lpc' = "call"
            /\ UNCHANGED <<bucket, item>>
    /\ UNCHANGED <<SCHEMAS, loadIdx, cycle, pump, stype>>
    /\ UNCHANGED auxVars

\* A loop that leaves the value block after a refused item.
Return_LeavesBlockOnFalse ==
    /\ lpc = "call"
    /\ pc \in {"rejected", "reported_ok", "reported_fail"}
    /\ report' = IF result = "True" THEN "ok" ELSE "validation_failed"
    /\ IF SCHEMA_PAYLOADS[stype] = "value" /\ result = "True"
       THEN /\ item' = item + 1
            /\ lpc' = "item"
            /\ UNCHANGED stype
       ELSE /\ stype' = stype + 1
            /\ lpc' = "type"
            /\ UNCHANGED item
    /\ Unwind
    /\ reported' = reported \cup {topic}
    /\ UNCHANGED <<SCHEMAS, loadIdx, cycle, pump, bucket, attempted>>
    /\ UNCHANGED auxVars

\* A loop that has a line of its own for a publish the transport refused.
Return_NamesTransport ==
    /\ lpc = "call"
    /\ pc \in {"rejected", "reported_ok", "reported_fail"}
    /\ report' = IF result = "True" THEN "ok"
                 ELSE IF pc = "rejected" THEN "validation_failed"
                 ELSE "publish_failed"
    /\ IF SCHEMA_PAYLOADS[stype] = "value"
       THEN /\ item' = item + 1
            /\ lpc' = "item"
            /\ UNCHANGED stype
       ELSE /\ stype' = stype + 1
            /\ lpc' = "type"
            /\ UNCHANGED item
    /\ Unwind
    /\ reported' = reported \cup {topic}
    /\ UNCHANGED <<SCHEMAS, loadIdx, cycle, pump, bucket, attempted>>
    /\ UNCHANGED auxVars

\* Lines 805-808 and 812-815: the call returned; the loop prints the line of
\* the item and goes on with the next one.
Return ==
    /\ lpc = "call"
    /\ pc \in {"rejected", "reported_ok", "reported_fail"}
    /\ report' = IF result = "True" THEN "ok" ELSE "validation_failed"
    /\ IF SCHEMA_PAYLOADS[stype] = "value"
       THEN /\ item' = item + 1
            /\ lpc' = "item"
            /\ UNCHANGED stype
       ELSE /\ stype' = stype + 1
            /\ lpc' = "type"
            /\ UNCHANGED item
    /\ Unwind
    /\ reported' = reported \cup {topic}
    /\ UNCHANGED <<SCHEMAS, loadIdx, cycle, pump, bucket, attempted>>
    /\ UNCHANGED auxVars

\* A loop without the inner handler: the exception reaches the handler of
\* the outer `try`.
Except_Escalates ==
    /\ lpc = "call"
    /\ pc = "raised"
    /\ report' = "error"
    /\ lpc' = "conn_failed"
    /\ reported' = reported \cup {topic}
    /\ Unwind
    /\ UNCHANGED <<SCHEMAS, loadIdx, cycle, pump, stype, bucket, item, attempted>>
    /\ UNCHANGED auxVars

\* A loop whose handler encloses the sweep over one pump: the exception
\* ends the sweep of the pump.
Except_LeavesPump ==
    /\ lpc = "call"
    /\ pc = "raised"
    /\ report' = "error"
    /\ pump' = pump + 1
    /\ bucket' = 0
    /\ item' = 0
    /\ lpc' = "pump"
    /\ Unwind
    /\ reported' = reported \cup {topic}
    /\ UNCHANGED <<SCHEMAS, loadIdx, cycle, stype, attempted>>
    /\ UNCHANGED auxVars

\* Lines 802 and 811, then 816-818: payload_func(pump) or
\* value_payload_func(pump) raises; the handler of the schema type's `try`
\* logs it and the `for schema_type` loop goes on.
GenRaise ==
    /\ \/ lpc = "type" /\ stype <= Len(SCHEMA_PAYLOADS) /\ SCHEMA_PAYLOADS[stype] # "value"
       \/ lpc = "bucket" /\ bucket <= Len(VALUE_PAYLOADS)
    /\ report' = "error"
    /\ stype' = stype + 1
    /\ bucket' = 0
    /\ item' = 0
    /\ lpc' = "type"
    /\ UNCHANGED <<SCHEMAS, pubVars, loadIdx, cycle, pump, attempted, reported>>
    /\ UNCHANGED auxVars

\* Lines 816-818: an exception left the call; the handler of the schema
\* type's `try` logs it and the `for schema_type` loop goes on.
Except ==
    /\ lpc = "call"
    /\ pc = "raised"
    /\ report' = "error"
    /\ stype' = stype + 1
    /\ bucket' = 0
    /\ item' = 0
    /\ lpc' = "type"
    /\ Unwind
    /\ reported' = reported \cup {topic}
    /\ UNCHANGED <<SCHEMAS, loadIdx, cycle, pump, attempted>>
    /\ UNCHANGED auxVars

\* Lines 819-820: the wait between two cycles.
Wait ==
    /\ lpc = "wait"
    /\ lpc' = "cycle"
    /\ UNCHANGED <<SCHEMAS, pubVars, loadIdx, cycle, pump, stype, bucket, item,
                   attempted, reported, report>>
    /\ UNCHANGED auxVars

\* A loop whose per-item handler catches the KeyboardInterrupt as well: the
\* signal is noted and the loop goes on with the next schema type.
Interrupt_Swallowed ==
    /\ lpc \in {"connect", "cycle", "pump", "type", "bucket", "item", "call", "wait"}
    /\ IF lpc = "call"
       THEN /\ lpc' = "type"
            /\ stype' = stype + 1
            /\ bucket' = 0
            /\ item' = 0
       ELSE /\ lpc' = "interrupted"
            /\ UNCHANGED <<stype, bucket, item>>
    /\ report' = "stopping"
    /\ Unwind
    /\ UNCHANGED <<SCHEMAS, loadIdx, cycle, pump, attempted, reported>>
    /\ UNCHANGED auxVars

\* Lines 821-822: KeyboardInterrupt, anywhere inside the `try` of line 784.
Interrupt ==
    /\ lpc \in {"connect", "cycle", "pump", "type", "bucket", "item", "call", "wait"}
    /\ lpc' = "interrupted"
    /\ report' = "stopping"
    /\ Unwind
    /\ UNCHANGED <<SCHEMAS, loadIdx, cycle, pump, stype, bucket, item, attempted, reported>>
    /\ UNCHANGED auxVars

\* Lines 826-829: the `finally` clause.
Finally ==
    /\ lpc \in {"interrupted", "conn_failed"}
    /\ client' = [client EXCEPT !.link = "closed",
                                !.released = IF @ = "no" THEN "once" ELSE "again"]
    /\ lpc' = "exit"
    /\ UNCHANGED <<SCHEMAS, pubVars, loadIdx, cycle, pump, stype, bucket, item,
                   attempted, reported, report, env, module_client, calls>>

\* Line 931: publish_pump_data() returned to the script, which has nothing
\* left to run; the interpreter ends with status 0.
ScriptEnd ==
    /\ lpc = "exit"
    /\ lpc' = "exit_status_0"
    /\ UNCHANGED <<SCHEMAS, pubVars, loadIdx, cycle, pump, stype, bucket, item,
                   attempted, reported, report>>
    /\ UNCHANGED auxVars

Init ==
    /\ SCHEMAS = [n \in SchemaNames |-> Absent]
    /\ Idle
    /\ lpc = "load"
    /\ loadIdx = 1
    /\ cycle = 0
    /\ pump = 0
    /\ stype = 0
    /\ bucket = 0
    /\ item = 0
    /\ attempted = {}
    /\ reported = {}
    /\ report = None
    /\ env = DefaultEnv
    /\ module_client = NoClient
    /\ client = NoClient
    /\ calls = NoCalls

Next ==
    \/ LoadSchema \/ ModuleClient \/ CreateClient \/ ConfigureClient \/ InterruptBeforeTry
    \/ Connect \/ Cycle \/ ForPump \/ ForType \/ ForBucket \/ ForItem
    \/ Classify \/ Validate \/ Serialize \/ Send \/ Report
    \/ OnPublish \/ Return \/ Except \/ Wait \/ Interrupt \/ Finally \/ ScriptEnd

Spec == Init /\ [][Next]_vars

\* The steps of the script's only thread that no signal is needed for.
Step ==
    \/ LoadSchema \/ ModuleClient \/ CreateClient \/ ConfigureClient
    \/ Connect \/ Cycle \/ ForPump \/ ForType \/ ForBucket \/ ForItem
    \/ Classify \/ Validate \/ Serialize \/ Send \/ Report
    \/ Return \/ Except \/ Wait \/ Finally \/ ScriptEnd

\* The script when no KeyboardInterrupt arrives: the thread of the script
\* keeps running (every call it makes returns or raises, the sleeps end).
NextLive == Step \/ OnPublish

SpecLive == Init /\ [][NextLive]_vars /\ WF_vars(Step)

\* The same script when the payload generators can raise as well.
NextRaise == Step \/ OnPublish \/ GenRaise

SpecRaise == Init /\ [][NextRaise]_vars /\ WF_vars(Step)

\* ------------------------------------------------------------------------
\* SpecSetup: the two clients, for every setting of the environment
\* ------------------------------------------------------------------------

\* Lines 33-38 and 82-88: what os.getenv can give for the settings the
\* clients are configured from (each string empty or not, each flag either
\* way, the client id the default or another one).
Envs ==
    [client_id : {"uns-payload-example", "pump-publisher"},
     use_auth : BOOLEAN,
     username : {"", "operator"},
     password : {"", "secret"},
     use_tls : BOOLEAN,
     ca_cert_path : {"", "ca.crt"},
     client_cert_path : {"", "client.crt"},
     client_key_path : {"", "client.key"}]

\* The script after load_schemas, about to run lines 179-201.
InitSetup ==
    /\ SCHEMAS \in Registries(0)
    /\ Idle
    /\ lpc = "module_client"
    /\ loadIdx = Len(SchemaFiles) + 1
    /\ cycle = 0 /\ pump = 0 /\ stype = 0 /\ bucket = 0 /\ item = 0
    /\ attempted = {} /\ reported = {}
    /\ report = None
    /\ env \in Envs
    /\ module_client = NoClient
    /\ client = NoClient
    /\ calls = NoCalls

NextSetup == ModuleClient \/ CreateClient \/ ConfigureClient

SpecSetup == InitSetup /\ [][NextSetup]_vars

\* ------------------------------------------------------------------------
\* tank_mqtt_publisher.py: publish_payload and validate_payload
\* ------------------------------------------------------------------------

\* Tank lines 757-778: the if/elif chain over the topic.
tank_ClassifyTopic(t) ==
    IF Contains(<<"/", "edge", "/">>, t) THEN "reading"
    ELSE IF Contains(<<"/", "reading", "/">>, t) THEN "reading"
    ELSE IF Contains(<<"/", "measurement", "/">>, t) THEN "measurement"
    ELSE IF Contains(<<"/", "count", "/">>, t) THEN "count"
    ELSE IF Contains(<<"/", "kpi", "/">>, t) THEN "kpi"
    ELSE IF Contains(<<"/", "asset">>, t) THEN "asset"
    ELSE IF Contains(<<"/", "alert">>, t) THEN "alert"
    ELSE IF Contains(<<"/", "state">>, t) THEN "state"
    ELSE IF Contains(<<"/", "product">>, t) /\ ~Contains(<<"/", "product", "ion">>, t)
         THEN "product"
    ELSE IF Contains(<<"/", "product", "ion">>, t) THEN "production"
    ELSE IF Contains(<<"/", "value">>, t) THEN "value"
    ELSE None

\* Tank lines 779-799: the chain over the payload's keys, entered with
\* schema_name still unset.
tank_ClassifyShape(p) ==
    IF "assetId" \in p.keys THEN "asset"
    ELSE IF "alertId" \in p.keys THEN "alert"
    ELSE IF "stateId" \in p.keys THEN "state"
    ELSE IF "measurementId" \in p.keys THEN "measurement"
    ELSE IF "countId" \in p.keys THEN "count"
    ELSE IF "kpiId" \in p.keys THEN "kpi"
    ELSE IF "productId" \in p.keys THEN "product"
    ELSE IF "productionId" \in p.keys THEN "production"
    ELSE IF "valueId" \in p.keys THEN "value"
    ELSE IF "type" \in p.keys /\ "value" \in p.keys /\ "unit" \in p.keys THEN "reading"
    ELSE None

\* Mutant of tank_validate_payload: a schema that was not loaded fails the
\* payload.
tank_validate_payload_AbsentFails(p, name, schemas) ==
    schemas[name].loaded /\ SchemaAccepts(p, schemas[name])

\* Tank lines 127-144: validate_payload, the returned bool.
tank_validate_payload(p, name, schemas) ==
    IF ~schemas[name].loaded THEN TRUE
    ELSE SchemaAccepts(p, schemas[name])

\* Tank lines 754-814, the whole call: the schema name, where the call ends
\* and what it returns, given what json.dumps does with the payload and what
\* client.publish answers ("raises" or a return code).
tank_publish_payload(t, p, schemas, answer) ==
    LET byTopic == tank_ClassifyTopic(t)
        name == IF byTopic # None THEN byTopic ELSE tank_ClassifyShape(p)
    IN  IF name # None /\ ~tank_validate_payload(p, name, schemas)
        THEN [schema_name |-> name, handed |-> FALSE, result |-> "False"]
        ELSE IF ~p.serializable
        THEN [schema_name |-> name, handed |-> FALSE, result |-> "raised"]
        ELSE IF answer = "raises"
        THEN [schema_name |-> name, handed |-> TRUE, result |-> "raised"]
        ELSE [schema_name |-> name, handed |-> TRUE,
              result |-> IF answer = MQTT_ERR_SUCCESS THEN "True" ELSE "False"]

\* ------------------------------------------------------------------------
\* The callbacks of the network thread
\* ------------------------------------------------------------------------

\* An on_connect that gives up on a refusal: it makes the publisher's
\* thread leave the loop.
OnConnect_RefusalStops ==
    /\ client.link = "connecting"
    /\ \E accepted \in BOOLEAN :
          /\ client' = [client EXCEPT !.link = IF accepted THEN "up" ELSE "refused"]
          /\ IF accepted
             THEN UNCHANGED <<pubVars, loopVars>>
             ELSE /\ lpc' = "conn_failed"
                  /\ report' = "connection_failed"
                  /\ Unwind
                  /\ UNCHANGED <<loadIdx, cycle, pump, stype, bucket, item,
                                 attempted, reported>>
    /\ UNCHANGED <<SCHEMAS, env, module_client, calls>>

\* Lines 160-167: on_connect, called on the network thread with the broker's
\* answer to the connect; it logs and prints, for return code 0 as for a
\* refusal.
OnConnect ==
    /\ client.link = "connecting"
    /\ \E accepted \in BOOLEAN :
          client' = [client EXCEPT !.link = IF accepted THEN "up" ELSE "refused"]
    /\ UNCHANGED <<SCHEMAS, pubVars, loopVars, env, module_client, calls>>

\* Lines 174-177: on_disconnect, called on the network thread when the
\* connection is gone; it logs and prints.
OnDisconnect ==
    /\ client.link \in {"up", "refused"}
    /\ client' = [client EXCEPT !.link = "down"]
    /\ UNCHANGED <<SCHEMAS, pubVars, loopVars, env, module_client, calls>>

\* The network thread started by loop_start connects again after a loss.
Reconnect ==
    /\ client.link = "down"
    /\ client' = [client EXCEPT !.link = "connecting"]
    /\ UNCHANGED <<SCHEMAS, pubVars, loopVars, env, module_client, calls>>

NetworkStep == OnConnect \/ OnDisconnect \/ Reconnect

\* The script with the events of the network thread.
NextNet == Next \/ NetworkStep

SpecNet == Init /\ [][NextNet]_vars

\* The script with the events of the network thread when no
\* KeyboardInterrupt arrives and the script's thread keeps running.
NextNetLive == NextLive \/ NetworkStep

SpecNetLive == Init /\ [][NextNetLive]_vars /\ WF_vars(Step)

\* ------------------------------------------------------------------------
\* SpecConcurrent: classify and validate of several calls, interleaved
\* ------------------------------------------------------------------------

CallIds == {"c1", "c2"}

ConcTopics ==
    {Join(<< <<"x">>, <<"measurement">>, <<"x">> >>), Join(<< <<"x">> >>),
     Join(<< <<"x">>, <<"asset">> >>)}
ConcKeySets == {{"type", "value"}, ReadingKeys, {"measurementId"}}

\* The locals of one publish_payload call up to the gate.
CallFrame(t, p) == [topic |-> t, payload |-> p, schema_name |-> None,
                    pc |-> "classifying", ok |-> None]

\* A classifier that keeps schema_name in a module-level variable: the name a
\* call determines is seen by every call.
ClassifyIn_SharedName(c) ==
    /\ calls[c].pc = "classifying"
    /\ calls' = [d \in CallIds |->
                   [calls[d] EXCEPT
                      !.schema_name = ClassifySchema(calls[c].topic, calls[c].payload),
                      !.pc = IF d = c THEN "validating" ELSE @]]
    /\ UNCHANGED <<SCHEMAS, pubVars, loopVars, env, module_client, client>>

\* Lines 833-882 in the frame of call c.
ClassifyIn(c) ==
    /\ calls[c].pc = "classifying"
    /\ calls' = [calls EXCEPT
                   ![c].schema_name = ClassifySchema(calls[c].topic, calls[c].payload),
                   ![c].pc = "validating"]
    /\ UNCHANGED <<SCHEMAS, pubVars, loopVars, env, module_client, client>>

\* Lines 884-890 in the frame of call c: the gate, reading SCHEMAS.
ValidateIn(c) ==
    /\ calls[c].pc = "validating"
    /\ LET f == calls[c]
           accepted == IF f.schema_name # None
                       THEN validate_payload(f.payload, f.schema_name, SCHEMAS).ok
                       ELSE TRUE
       IN calls' = [calls EXCEPT ![c].ok = IF accepted THEN "True" ELSE "False",
                                 ![c].pc = "done"]
    /\ UNCHANGED <<SCHEMAS, pubVars, loopVars, env, module_client, client>>

InitConcurrent ==
    /\ SCHEMAS \in Registries(MaxLoadFailures)
    /\ Idle
    /\ lpc = "none"
    /\ loadIdx = 0
    /\ cycle = 0
    /\ pump = 0
    /\ stype = 0
    /\ bucket = 0
    /\ item = 0
    /\ attempted = {}
    /\ reported = {}
    /\ report = None
    /\ env = DefaultEnv
    /\ module_client = NoClient
    /\ client = [NewClient("") EXCEPT !.link = "connecting"]
    /\ calls \in [CallIds -> {CallFrame(t, Payload(keys, w, TRUE)) :
                                 t \in ConcTopics, keys \in ConcKeySets, w \in BOOLEAN}]

NextConcurrent ==
    \/ \E c \in CallIds : ClassifyIn(c)
    \/ \E c \in CallIds : ValidateIn(c)
    \/ NetworkStep

SpecConcurrent == InitConcurrent /\ [][NextConcurrent]_vars

\* ------------------------------------------------------------------------
\* Vocabulary of the classification claims
\* ------------------------------------------------------------------------

\* The call has classified its arguments: schema_name holds the result.
Classified == pc = "validating"

\* The segments of a topic by position.
AnySegs(t) ==
    LET cuts == Cuts(t)
    IN  {SegmentAfter(t, cuts, a) : a \in cuts \ {Len(t) + 1}}
LaterSegs(t) ==
    LET cuts == Cuts(t)
    IN  {SegmentAfter(t, cuts, a) : a \in cuts \ {0, Len(t) + 1}}
InteriorSegs(t) ==
    LET cuts == Cuts(t)
    IN  {SegmentAfter(t, cuts, a) :
            a \in {c \in cuts \ {0, Len(t) + 1} : NextCut(cuts, c) # Len(t) + 1}}
StartsWith(seg, kw) == Len(seg) >= Len(kw) /\ SubSeq(seg, 1, Len(kw)) = kw

\* The topic rules as an ordered list: keyword, resulting schema, whether the
\* keyword must be a whole segment between two others (whole) or only start a
\* segment after the first, and the keyword that must not match (unless).
Rule(kw, schema, whole, unless) ==
    [kw |-> kw, schema |-> schema, whole |-> whole, unless |-> unless]
TopicRules ==
    << Rule(<<"edge">>, "reading", TRUE, {}),
       Rule(<<"reading">>, "reading", TRUE, {}),
       Rule(<<"measurement">>, "measurement", TRUE, {}),
       Rule(<<"count">>, "count", TRUE, {}),
       Rule(<<"kpi">>, "kpi", TRUE, {}),
       Rule(<<"asset">>, "asset", FALSE, {}),
       Rule(<<"alert">>, "alert", FALSE, {}),
       Rule(<<"state">>, "state", FALSE, {}),
       Rule(<<"product">>, "product", FALSE, {<<"product", "ion">>}),
       Rule(<<"product", "ion">>, "production", FALSE, {}),
       Rule(<<"value">>, "value", FALSE, {}) >>

\* The rule's keyword occurs where the rule looks for it: among the segments
\* between the first and the last (interior), or at the start of a segment
\* after the first (later).
KeywordAt(kw, whole, interior, later) ==
    IF whole THEN kw \in interior
    ELSE \E seg \in later : StartsWith(seg, kw)
RuleMatches(r, interior, later) ==
    /\ KeywordAt(r.kw, r.whole, interior, later)
    /\ \A u \in r.unless : ~KeywordAt(u, r.whole, interior, later)
MatchingRules(t) ==
    LET interior == InteriorSegs(t)
        later == LaterSegs(t)
    IN  {i \in 1..Len(TopicRules) : RuleMatches(TopicRules[i], interior, later)}
Lowest(S) == CHOOSE i \in S : \A j \in S : i <= j

\* The same list read as the claims word it: a rule matches when its keyword
\* is a segment of the topic, whatever the segment's position.
SegmentRules(t) ==
    LET any == AnySegs(t)
    IN  {i \in 1..Len(TopicRules) :
            /\ TopicRules[i].kw \in any
            /\ \A u \in TopicRules[i].unless : u \notin any}

\* The shape rules as an ordered list of key and schema.
ShapeOrder ==
    << <<"assetId", "asset">>, <<"alertId", "alert">>, <<"stateId", "state">>,
       <<"measurementId", "measurement">>, <<"countId", "count">>,
       <<"kpiId", "kpi">>, <<"productId", "product">>,
       <<"productionId", "production">>, <<"valueId", "value">> >>
ShapeHits(keys) == {i \in 1..Len(ShapeOrder) : ShapeOrder[i][1] \in keys}

\* ------------------------------------------------------------------------
\* Vocabulary of the pipeline claims
\* ------------------------------------------------------------------------

\* schema_name holds the classifier's result (the call is past line 882).
PastClassify == pc \notin {"idle", "classifying"}
\* The gate of lines 884-890 let the call through.
PastGate == pc \in {"serializing", "sending", "sent", "reported_ok", "reported_fail"}
\* client.publish returned a code for this call.
PastSend == pc \in {"sent", "reported_ok", "reported_fail"}
\* The call returned a value.
Returned == pc \in {"rejected", "reported_ok", "reported_fail"}

\* The payload satisfies the document: what a successful validation means.
Conforms(p, doc) == doc.required \subseteq p.keys /\ p.wellTyped

\* Neither the topic nor the payload carries a classification signal.
NoSignals(t, p) ==
    /\ p.keys \cap IdKeys = {}
    /\ ~(ReadingKeys \subseteq p.keys)
    /\ MatchingRules(t) = {}

\* ------------------------------------------------------------------------
\* C1
\* ------------------------------------------------------------------------

\* C1 as stated: a payload is handed to the transport only if it was
\* validated successfully against the schema resolved for it, or no schema
\* name was resolved from its topic or shape.
C1_ValidatedOrUnresolved ==
    handed =>
        \/ schema_name = None
        \/ (SCHEMAS[schema_name].loaded /\ Conforms(payload, SCHEMAS[schema_name]))

\* C1 amended: a payload is handed to the transport only if it was validated
\* successfully against the schema resolved for it, or no schema name was
\* resolved from its topic or shape, or the resolved name has no schema in
\* the registry; with a name resolved and its schema loaded, a failed
\* validation blocks the transmission.
C1_TransmitOnlyIfValidOrNoSchema ==
    handed =>
        \/ schema_name = None
        \/ ~SCHEMAS[schema_name].loaded
        \/ Conforms(payload, SCHEMAS[schema_name])

\* C1 witness: a payload that went through a mandatory validation and was
\* handed to the transport.
C1_Witness ==
    /\ handed
    /\ topic = Join(<< <<"x">>, <<"measurement">>, <<"x">> >>)
    /\ schema_name = "measurement"
    /\ SCHEMAS["measurement"].loaded
    /\ payload.keys = ReadingKeys

\* ------------------------------------------------------------------------
\* C7
\* ------------------------------------------------------------------------

\* C7: with no signal in topic and payload the classification is unknown
\* (None), the gate never rejects the call, the advisory warning is emitted,
\* nothing of a validation is logged, and a call that gets a return code from
\* the transport has handed the payload over and returns True exactly when
\* the code is MQTT_ERR_SUCCESS.
C7_UnknownIsAdvisory ==
    (PastClassify /\ NoSignals(topic, payload)) =>
        /\ schema_name = None
        /\ pc # "rejected"
        /\ (pc # "validating" => "warn_undetermined" \in log)
        /\ log \cap {"warn_no_schema", "err_validation", "err_not_publishing"} = {}
        /\ (PastSend => handed)
        /\ (Returned => (result = "True" <=> rc = MQTT_ERR_SUCCESS))
        /\ (Returned => (result = "False" <=> rc # MQTT_ERR_SUCCESS))

\* C7 witness: a payload without signals (and badly typed) was handed to the
\* transport, which refused it.
C7_Witness ==
    /\ NoSignals(topic, payload)
    /\ payload.keys = {"type", "value"}
    /\ ~payload.wellTyped
    /\ pc = "reported_fail"
    /\ handed

\* C7 second witness: the same payload, accepted by the transport.
C7_WitnessOk ==
    /\ NoSignals(topic, payload)
    /\ pc = "reported_ok"
    /\ result = "True"

\* ------------------------------------------------------------------------
\* C9
\* ------------------------------------------------------------------------

\* C9: when the resolved schema name has no entry in the registry the gate
\* lets the payload through whatever it contains, the warning that no schema
\* was found is reported, and the payload reaches the transport.
C9_AbsentSchemaSoftPass ==
    (PastClassify /\ schema_name # None /\ ~SCHEMAS[schema_name].loaded) =>
        /\ pc # "rejected"
        /\ (pc # "validating" => "warn_no_schema" \in log)
        /\ log \cap {"err_validation", "err_not_publishing"} = {}
        /\ (PastSend => handed)
        /\ (Returned => (result = "True" <=> rc = MQTT_ERR_SUCCESS))

\* C9 witness: the measurement topic, the measurement schema missing from the
\* registry, a payload the schema would refuse, published.
C9_Witness ==
    /\ topic = Join(<< <<"x">>, <<"measurement">>, <<"x">> >>)
    /\ ~SCHEMAS["measurement"].loaded
    /\ "unit" \notin payload.keys
    /\ pc = "reported_ok"
    /\ handed
    /\ "warn_no_schema" \in log

\* ------------------------------------------------------------------------
\* C2
\* ------------------------------------------------------------------------

\* C2 as stated: when keywords of the rule list occur as segments of the
\* topic, the result is the schema of the earliest such rule.
C2_SegmentFirstMatch ==
    Classified =>
        LET hits == SegmentRules(topic)
        IN  hits # {} => schema_name = TopicRules[Lowest(hits)].schema

\* C2 amended: the rules are tried in the fixed order and the result is the
\* schema of the first rule whose pattern occurs in the topic, where edge,
\* reading, measurement, count and kpi must be a whole segment that is neither
\* the first nor the last, and asset, alert, state, product, production and
\* value must start a segment other than the first.
C2_FirstMatchWins ==
    Classified =>
        LET hits == MatchingRules(topic)
        IN  hits # {} => schema_name = TopicRules[Lowest(hits)].schema

\* C2 witness: a classified topic in which a later rule (count) occurs before
\* an earlier one (measurement), and a payload that points elsewhere.
C2_Witness ==
    /\ Classified
    /\ topic = Join(<< <<"x">>, <<"count">>, <<"measurement">>, <<"x">> >>)
    /\ "kpiId" \in payload.keys
    /\ schema_name = "measurement"

\* ------------------------------------------------------------------------
\* C3
\* ------------------------------------------------------------------------

\* C3 as stated: a topic with a segment edge or reading in any position,
\* first and last included, is classified as reading whatever the payload.
C3_AnyPosition ==
    (Classified /\ (<<"edge">> \in AnySegs(topic) \/ <<"reading">> \in AnySegs(topic)))
        => schema_name = "reading"

\* C3 amended: a topic with a segment edge or reading that is neither its
\* first nor its last segment is classified as reading whatever the payload.
C3_InteriorSegment ==
    (Classified /\ (<<"edge">> \in InteriorSegs(topic)
                     \/ <<"reading">> \in InteriorSegs(topic)))
        => schema_name = "reading"

\* C3 witness: reading between two segments, with the keyword of another rule
\* before it and a payload whose shape says asset.
C3_Witness ==
    /\ Classified
    /\ topic = Join(<< <<"x">>, <<"asset">>, <<"reading">>, <<"x">> >>)
    /\ "assetId" \in payload.keys
    /\ schema_name = "reading"

\* ------------------------------------------------------------------------
\* C4
\* ------------------------------------------------------------------------

\* C4 as stated: a topic with both a product and a production segment is
\* classified as production.
C4_BothSegments ==
    (Classified /\ <<"product">> \in AnySegs(topic)
                /\ <<"product", "ion">> \in AnySegs(topic))
        => schema_name = "production"

\* C4 amended: a topic in which production starts a segment other than the
\* first, and in which no rule before the product rule matches, is classified
\* as production, not product, also when it has a product segment.
C4_ProductionWins ==
    (Classified /\ (\E seg \in LaterSegs(topic) : StartsWith(seg, <<"product", "ion">>))
                /\ \A i \in MatchingRules(topic) : i >= 9)
        => schema_name = "production"

\* C4 witness: product and production both after the first segment.
C4_Witness ==
    /\ Classified
    /\ topic = Join(<< <<"x">>, <<"product">>, <<"product", "ion">> >>)
    /\ schema_name = "production"

\* ------------------------------------------------------------------------
\* C5
\* ------------------------------------------------------------------------

\* C5: when no topic rule matches, the payload's keys decide: the first of
\* assetId, alertId, stateId, measurementId, countId, kpiId, productId,
\* productionId, valueId that is present gives its stem; with none of them,
\* type, value and unit together give reading, and fewer of the three give no
\* schema.
C5_ShapeFallback ==
    (Classified /\ MatchingRules(topic) = {})
        => schema_name =
             IF ShapeHits(payload.keys) # {}
             THEN ShapeOrder[Lowest(ShapeHits(payload.keys))][2]
             ELSE IF ReadingKeys \subseteq payload.keys THEN "reading"
             ELSE None

\* C5 witness: no topic rule matches and the payload has two of the keys, the
\* later one of the order (kpiId) and an earlier one (countId).
C5_Witness ==
    /\ Classified
    /\ MatchingRules(topic) = {}
    /\ {"countId", "kpiId"} \subseteq payload.keys
    /\ ReadingKeys \subseteq payload.keys
    /\ schema_name = "count"

\* C5 second case reached: two of type, value, unit and no *Id key give None.
C5_WitnessPartial ==
    /\ Classified
    /\ payload.keys = {"type", "value"}
    /\ schema_name = None

\* ------------------------------------------------------------------------
\* C6
\* ------------------------------------------------------------------------

\* C6 as stated: when no topic rule matches, a payload with key kpiId is
\* classified as kpi.
C6_KpiIdAlways ==
    (Classified /\ "kpiId" \in payload.keys /\ MatchingRules(topic) = {})
        => schema_name = "kpi"

\* C6 amended: when no topic rule matches, a payload with key kpiId and none
\* of assetId, alertId, stateId, measurementId, countId is classified as kpi.
C6_KpiIdUnlessEarlier ==
    (Classified /\ "kpiId" \in payload.keys
                /\ payload.keys \cap {"assetId", "alertId", "stateId",
                                      "measurementId", "countId"} = {}
                /\ MatchingRules(topic) = {})
        => schema_name = "kpi"

\* C6 witness: kpiId together with a later key of the order and the reading
\* keys, under a topic without matching rule.
C6_Witness ==
    /\ Classified
    /\ MatchingRules(topic) = {}
    /\ {"kpiId", "productId"} \cup ReadingKeys \subseteq payload.keys
    /\ schema_name = "kpi"

\* ------------------------------------------------------------------------
\* C8
\* ------------------------------------------------------------------------

\* The call in progress has a topic whose schema is loaded and a payload that
\* schema refuses.
Violating ==
    /\ lpc = "call"
    /\ PastClassify
    /\ schema_name # None
    /\ SCHEMAS[schema_name].loaded
    /\ ~Conforms(payload, SCHEMAS[schema_name])

\* The loop is at the head of the iteration that follows the current call.
AtNextItem ==
    IF SCHEMA_PAYLOADS[stype] = "value"
    THEN lpc' = "item" /\ item' = item + 1 /\ bucket' = bucket /\ stype' = stype
    ELSE lpc' = "type" /\ stype' = stype + 1

\* C8: a call of the loop whose topic resolves to a loaded schema and whose
\* payload violates that schema never reaches serialization or the
\* transport and never raises; it ends with the refusal logged and the
\* result False, and the step that leaves the call (short of an interrupt)
\* prints the validation failure and puts the loop at the next item of the
\* same pump.
C8_RejectedAndLoopGoesOn ==
    /\ [](Violating =>
             /\ pc \in {"validating", "rejected"}
             /\ ~handed
             /\ (pc = "rejected" =>
                    /\ result = "False"
                    /\ {"err_validation", "err_not_publishing"} \subseteq log))
    /\ [][(Violating /\ lpc' # "call" /\ lpc' # "interrupted") =>
             /\ pc = "rejected"
             /\ report' = "validation_failed"
             /\ pump' = pump
             /\ AtNextItem]_vars

\* C8 witness: the first measurement item of a pump was refused by the
\* loaded measurement schema, and the loop stands at the second item.
C8_Witness ==
    /\ SCHEMAS["measurement"].loaded
    /\ report = "validation_failed"
    /\ lpc = "item"
    /\ bucket = 1
    /\ item = 2
    /\ ValueTopic(pump, 1, 1) \in attempted

\* ------------------------------------------------------------------------
\* C10
\* ------------------------------------------------------------------------

\* C10: when the sweep over a pump is over, every topic of that pump was
\* attempted, whatever was raised on the way.
C10_EveryTopicAttempted ==
    (lpc = "pump" /\ pump > 1) => attempted = PumpTopics(pump - 1)

\* C10 witness: an error was reported and the sweep over the pump went on to
\* its end.
C10_Witness ==
    /\ lpc = "pump"
    /\ pump > 1
    /\ report = "error"

\* ------------------------------------------------------------------------
\* C11
\* ------------------------------------------------------------------------

\* The script has left publish_pump_data's loop for good.
Stopped == lpc \in {"interrupted", "conn_failed", "exit", "exit_status_0"}

\* C11: without a KeyboardInterrupt and with the script's thread running,
\* every cycle that starts gets to its wait and every wait is followed by the
\* start of a new cycle, whatever the items of the cycle did (rejected, not
\* classified, refused by the transport, raised); the script stops only from
\* the connect, before the first cycle.
C11_LoopRunsForever ==
    /\ (lpc = "cycle") ~> (lpc = "wait")
    /\ (lpc = "wait") ~> (lpc = "cycle")
    /\ [](Stopped => (report = "connection_failed" /\ cycle = 0))

\* C11 witness: the last item of a cycle raised, and the next cycle is about
\* to start.
C11_Witness ==
    /\ lpc = "cycle"
    /\ cycle = MaxCycles
    /\ report = "error"

\* ------------------------------------------------------------------------
\* C12
\* ------------------------------------------------------------------------

\* C12: after client.connect raised, no payload was or is classified,
\* validated or handed to the transport, the function is left through the
\* `finally` clause only, and the script does not come to a normal end: the
\* failure is the outcome of the process.
C12_ConnectFailureIsTerminalFailure ==
    report = "connection_failed" =>
        /\ cycle = 0
        /\ attempted = {}
        /\ pc = "idle"
        /\ ~handed
        /\ lpc \in {"conn_failed", "exit", "exit_status_0"}
        /\ lpc # "exit_status_0"

\* C12 witness: the connect failed and the `finally` clause has run.
C12_Witness ==
    /\ report = "connection_failed"
    /\ lpc = "exit"
    /\ attempted = {}

\* ------------------------------------------------------------------------
\* C13
\* ------------------------------------------------------------------------

\* C13: a call that passed the gate and got a return code from the
\* transport returns True when that code is MQTT_ERR_SUCCESS and False for
\* every other code, and it can return as soon as it has the code, whether
\* or not on_publish has run for the message.
C13_ResultIsImmediateReturnCode ==
    /\ (pc \in {"reported_ok", "reported_fail"} =>
           /\ handed
           /\ (result = "True" <=> rc = MQTT_ERR_SUCCESS)
           /\ (result = "False" <=> rc # MQTT_ERR_SUCCESS)
           /\ (pc = "reported_ok" <=> rc = MQTT_ERR_SUCCESS))
    /\ (pc = "sent" => ENABLED Report)

\* C13 witness: the call returned True and on_publish has not run yet.
C13_Witness ==
    /\ pc = "reported_ok"
    /\ result = "True"
    /\ "dbg_published_mid" \notin log

\* C13 second witness: the transport refused the send and the call returned
\* False.
C13_WitnessRefused ==
    /\ pc = "reported_fail"
    /\ result = "False"
    /\ rc = "MQTT_ERR_NO_CONN"

\* ------------------------------------------------------------------------
\* C14
\* ------------------------------------------------------------------------

\* The value generator of bucket b was called in the sweep over pump p: the
\* first item of the list it returned went to publish_payload.
ListGenerated(p, b) == ValueTopic(p, b, 1) \in attempted

\* C14: when the sweep over a pump is over, a line was printed for every
\* topic publish_payload was called with and for every item of every list a
\* value generator returned, also when an earlier item of the pump raised.
C14_EveryItemReported ==
    (lpc = "pump" /\ pump > 1) =>
        /\ attempted \subseteq reported
        /\ \A b \in 1..Len(VALUE_PAYLOADS) : \A i \in 1..MaxBucketItems :
               ListGenerated(pump - 1, b) => ValueTopic(pump - 1, b, i) \in reported

\* C14 witness: a sweep over a pump ended after an item of it had raised,
\* with every generated item reported (the item that raised was the last of
\* the last list).
C14_Witness ==
    /\ lpc = "pump"
    /\ pump > 1
    /\ report = "error"
    /\ reported = PumpTopics(pump - 1)

\* ------------------------------------------------------------------------
\* C15
\* ------------------------------------------------------------------------

\* The names whose file load_schemas has gone through.
Processed == {SchemaFiles[i] : i \in 1..(loadIdx - 1)}

\* C15: load_schemas goes through all ten files whatever happens to any of
\* them and then returns (the script goes on to the connect); the step for
\* one file either stores that file's document under its name or leaves the
\* name absent, and touches no other entry; the names with an entry are
\* always among the ten names, and the mapping returned is one of the
\* partial registries.
C15_LoadNeverFatal ==
    /\ [](lpc # "load" => loadIdx = Len(SchemaFiles) + 1)
    /\ []({n \in SchemaNames : SCHEMAS[n].loaded} \subseteq Processed)
    /\ [](Processed \subseteq SchemaNames)
    /\ [](lpc = "connect" => SCHEMAS \in Registries(MaxLoadFailures))
    /\ [][lpc = "load" =>
             /\ loadIdx' = loadIdx + 1
             /\ lpc' \in {"load", "module_client"}
             /\ \A n \in SchemaNames \ {SchemaFiles[loadIdx]} : SCHEMAS'[n] = SCHEMAS[n]
             /\ SCHEMAS'[SchemaFiles[loadIdx]] \in {Absent, StoreDocument(SchemaFiles[loadIdx])}]_vars

\* C15 witness: the first file (asset) failed to load, the files after it
\* were loaded, and the load is over.
C15_Witness ==
    /\ lpc = "connect"
    /\ ~SCHEMAS["asset"].loaded
    /\ \A n \in SchemaNames \ {"asset"} : SCHEMAS[n].loaded

\* ------------------------------------------------------------------------
\* C16
\* ------------------------------------------------------------------------

\* The stages a call can be in right after the given stage; "raised" is the
\* stage of a call left by an exception, which the loop reports.
After(stage) ==
    CASE stage = "idle" -> {"classifying"}
      [] stage = "classifying" -> {"validating"}
      [] stage = "validating" -> {"rejected", "serializing"}
      [] stage = "serializing" -> {"sending", "raised"}
      [] stage = "sending" -> {"sent", "raised"}
      [] stage = "sent" -> {"reported_ok", "reported_fail"}
      [] OTHER -> {"idle"}

\* C16: a call moves from stage to stage in the order classifying,
\* validating, then rejected or serializing, sending, reported, idle: it is
\* validating only with the classification done, serializing or sending
\* only after the gate accepted, never handed over when rejected, and when
\* the script's thread keeps running every call that started ends with a
\* line printed for it and the call back at idle.
C16_StageOrder ==
    /\ [][pc' # pc => pc' \in After(pc)]_vars
    /\ [](pc = "validating" => schema_name = ClassifySchema(topic, payload))
    /\ [](pc \in {"serializing", "sending", "sent", "reported_ok", "reported_fail"} =>
            /\ "err_not_publishing" \notin log
            /\ (schema_name # None => validate_payload(payload, schema_name, SCHEMAS).ok))
    /\ [](pc = "rejected" => ~handed)
    /\ (pc = "classifying") ~> (pc = "idle" /\ report # None /\ topic = << >>)

\* C16 witness: a call went all the way and the loop printed its line.
C16_Witness ==
    /\ pc = "idle"
    /\ report = "ok"
    /\ lpc = "item"

\* C16 second witness: a rejected call.
C16_WitnessRejected ==
    /\ pc = "rejected"
    /\ lpc = "call"
    /\ ~handed

\* ------------------------------------------------------------------------
\* C17
\* ------------------------------------------------------------------------

\* The payloads a second publish to the same topic is tried with.
OtherPayloads ==
    {Payload(keys, w, TRUE) : keys \in PubKeySets \cup ProbeKeySets, w \in BOOLEAN}

\* C17: when a topic rule matches the topic of a call, the schema name the
\* call resolves to is the one of the topic rule, whatever the payload has,
\* and a call with the same topic and any other payload resolves to the same
\* name; a name that comes from the payload's shape means no topic rule
\* matched.
C17_TopicDecidesAlone ==
    Classified =>
        LET byTopic == ClassifyTopic(topic) IN
        /\ byTopic # None =>
              /\ schema_name = byTopic
              /\ \A other \in OtherPayloads : ClassifySchema(topic, other) = schema_name
        /\ byTopic = None => schema_name = ClassifyShape(payload)

\* C17 witness: the topic says asset, the payload has measurementId, the
\* call resolved to asset.
C17_Witness ==
    /\ Classified
    /\ topic = Join(<< <<"x">>, <<"asset">> >>)
    /\ payload.keys = {"measurementId"}
    /\ schema_name = "asset"

\* ------------------------------------------------------------------------
\* C18
\* ------------------------------------------------------------------------

\* C18: the registry is filled while the module loads and at no other time:
\* once load_schemas is over it never runs again, and no step of the script
\* after it (classifying, validating, sending, reporting, the loop, the
\* shutdown) changes any entry of SCHEMAS.
C18_RegistryReadOnly ==
    [][lpc # "load" => (SCHEMAS' = SCHEMAS /\ lpc' # "load")]_vars

\* C18 witness: a partial registry after two cycles in which items were
\* published, and the last one raised.
C18_Witness ==
    /\ lpc = "wait"
    /\ cycle = MaxCycles
    /\ report = "error"
    /\ ~SCHEMAS["measurement"].loaded
    /\ SCHEMAS["asset"].loaded

\* ------------------------------------------------------------------------
\* C19
\* ------------------------------------------------------------------------

\* C19: the step that determines the schema name changes nothing but the
\* local schema_name (and the position of the call): topic, payload,
\* registry, transport state, log and result stay as they are; and the name
\* it yields is the same for the same topic and payload in every call,
\* whatever the registry holds.
C19_ClassifyIsPure ==
    /\ [][pc = "classifying" /\ pc' # pc =>
             /\ topic' = topic
             /\ payload' = payload
             /\ SCHEMAS' = SCHEMAS
             /\ rc' = rc
             /\ handed' = handed
             /\ log' = log
             /\ result' = result
             /\ schema_name' = ClassifySchema(topic, payload)]_vars
    /\ [](Classified => (schema_name = ClassifySchema(topic, payload) /\ ~handed /\ log = {}))

\* C19 witness: a payload with measurementId on a topic without keyword was
\* classified while the measurement schema is missing from the registry.
C19_Witness ==
    /\ Classified
    /\ schema_name = "measurement"
    /\ payload.keys = {"measurementId"}
    /\ topic = Join(<< <<"x">> >>)
    /\ ~SCHEMAS["measurement"].loaded

\* ------------------------------------------------------------------------
\* C20
\* ------------------------------------------------------------------------

\* In the sweep over pump p a publish was attempted for every schema type
\* and every value bucket.
SweptAllTypes(p) ==
    /\ \A t \in 1..(Len(SCHEMA_PAYLOADS) - 1) : PlainTopic(p, t) \in attempted
    /\ \A b \in 1..Len(VALUE_PAYLOADS) :
          \E i \in 1..MaxBucketItems : ValueTopic(p, b, i) \in attempted

\* C20: in every cycle the sweep over each pump attempts a publish for
\* asset, state, alert, product, production and for each of the buckets
\* measurement, count, kpi and edge, and the wait between cycles comes only
\* after the sweep over the last pump.
C20_FullSweepPerCycle ==
    /\ (lpc = "pump" /\ pump > 1) => SweptAllTypes(pump - 1)
    /\ lpc = "wait" => pump = MaxPumps + 1

\* C20 witness: the wait of a cycle, reached after a sweep over the last
\* pump that attempted every type.
C20_Witness ==
    /\ lpc = "wait"
    /\ pump = MaxPumps + 1
    /\ attempted = PumpTopics(MaxPumps)

\* ------------------------------------------------------------------------
\* C21
\* ------------------------------------------------------------------------

\* The loop is between two calls of publish_payload.
BetweenItems == lpc \in {"cycle", "pump", "type", "bucket", "item", "wait"}

\* C21: at most one payload of a sweep is being worked on at any time:
\* during a call the only topic attempted and not yet reported is its own,
\* between calls nothing is pending, and a call starts classifying only when
\* the call before it is over (returned, rejected or left by an exception)
\* and has its line printed.
C21_OneItemAtATime ==
    /\ [](lpc = "call" => attempted \ reported = {topic})
    /\ [](BetweenItems => (pc = "idle" /\ attempted \subseteq reported))
    /\ [][(pc' = "classifying" /\ pc # "classifying") =>
             (pc = "idle" /\ BetweenItems /\ attempted \subseteq reported)]_vars

\* C21 witness: the second item of a list starts classifying when the first
\* one has been handed over and reported.
C21_Witness ==
    /\ lpc = "call"
    /\ pc = "classifying"
    /\ item > 1
    /\ report = None
    /\ ValueTopic(pump, bucket, 1) \in reported
    /\ attempted \ reported = {topic}

\* ------------------------------------------------------------------------
\* C22
\* ------------------------------------------------------------------------

\* What the gate decides for a topic and a payload in a call run alone.
AloneAccepts(t, p) ==
    LET name == ClassifySchema(t, p) IN
    IF name # None THEN validate_payload(p, name, SCHEMAS).ok ELSE TRUE

\* C22: with calls interleaved in any order among themselves and with the
\* callbacks of the network thread, every call resolves the schema name and
\* takes the accept/reject decision it would alone, a step of one call
\* leaves the locals of the others as they are, and no step changes the
\* registry.
C22_Reentrant ==
    /\ [](\A c \in CallIds :
            /\ calls[c].pc # "classifying" =>
                   calls[c].schema_name = ClassifySchema(calls[c].topic, calls[c].payload)
            /\ calls[c].pc = "done" =>
                   (calls[c].ok = "True" <=> AloneAccepts(calls[c].topic, calls[c].payload)))
    /\ [][/\ SCHEMAS' = SCHEMAS
          /\ \A c \in CallIds :
                calls'[c] # calls[c] => \A d \in CallIds \ {c} : calls'[d] = calls[d]]_vars

\* C22 witness: one call is done and rejected, the other one sits between
\* its classification and its validation with another schema name, and the
\* network thread has reported a disconnect.
C22_Witness ==
    /\ calls["c1"].pc = "done"
    /\ calls["c1"].ok = "False"
    /\ calls["c2"].pc = "validating"
    /\ calls["c2"].schema_name # calls["c1"].schema_name
    /\ client.link = "down"

\* ------------------------------------------------------------------------
\* C23
\* ------------------------------------------------------------------------

\* The payload without the top-level key f.
Without(p, f) == [p EXCEPT !.keys = @ \ {f}]

Over == pc \in {"rejected", "reported_ok", "reported_fail", "raised"}

\* What client.publish answered in the call of the pump script.
Answer == IF rc # None THEN rc ELSE "raises"

\* C24: whenever the pump script's publish_payload has resolved a schema
\* name, it is the name the tank script's publish_payload resolves for the
\* same topic and payload; and when the pump call is over, the tank call on
\* the same topic, payload, registry and transport answer rejects exactly
\* when the pump call did, hands the payload to the transport exactly when
\* the pump call did, and returns (or raises) the same.
C24_PumpTankEquivalent ==
    /\ PastClassify =>
          schema_name = tank_publish_payload(topic, payload, SCHEMAS, Answer).schema_name
    /\ Over =>
          LET tank == tank_publish_payload(topic, payload, SCHEMAS, Answer) IN
          /\ tank.handed = handed
          /\ tank.result = result
          /\ (pc = "rejected" <=> (tank.result = "False" /\ ~tank.handed))

\* C24, the classification alone over the topics and payloads of
\* SpecClassify: both chains give the same name.
C24_SameClassification ==
    /\ tank_ClassifyTopic(topic) = ClassifyTopic(topic)
    /\ tank_ClassifyShape(payload) = ClassifyShape(payload)
    /\ PastClassify =>
          schema_name = (IF tank_ClassifyTopic(topic) # None
                         THEN tank_ClassifyTopic(topic)
                         ELSE tank_ClassifyShape(payload))

\* C24 witness: a call of the pump script that the gate refused.
C24_Witness ==
    /\ pc = "rejected"
    /\ schema_name = "measurement"
    /\ "unit" \notin payload.keys
    /\ tank_publish_payload(topic, payload, SCHEMAS, Answer).result = "False"

\* C24 second witness: a call of the pump script that published.
C24_WitnessPublished ==
    /\ pc = "reported_ok"
    /\ schema_name = "asset"
    /\ tank_publish_payload(topic, payload, SCHEMAS, Answer).result = "True"

\* ------------------------------------------------------------------------
\* C25
\* ------------------------------------------------------------------------

\* The schema type (or value type) of the item the loop is publishing.
ItemType ==
    IF SCHEMA_PAYLOADS[stype] = "value" THEN VALUE_PAYLOADS[bucket]
    ELSE SCHEMA_PAYLOADS[stype]

\* The schema an item of a type is meant for.
SchemaOf(type) == IF type = "edge" THEN "reading" ELSE type

\* C25: with the default topic segments, every call the loop makes has a
\* topic that a topic rule classifies, to the schema of the item's own type
\* (the edge bucket to reading), never to value and never to no schema; the
\* name the call resolves is that one, so the payload's shape is not
\* consulted; and no generated payload has one of the *Id keys at top level.
C25_GeneratedTopicsClassifyByRule ==
    lpc = "call" =>
        /\ ClassifyTopic(topic) = SchemaOf(ItemType)
        /\ ClassifyTopic(topic) \notin {None, "value"}
        /\ PastClassify => schema_name = ClassifyTopic(topic)
        /\ payload.keys = GeneratedKeys(ItemType)
        /\ payload.keys \cap IdKeys = {}

\* C25 witness: calls for a production item and for an edge item got past
\* classification.
C25_Witness ==
    /\ lpc = "call"
    /\ PastClassify
    /\ ItemType = "edge"
    /\ schema_name = "reading"
    /\ PlainTopic(pump, 5) \in attempted

\* ------------------------------------------------------------------------
\* C26
\* ------------------------------------------------------------------------

\* The head of `for schema_type` is reached for type number t of pump p.
AtType(p, t) == lpc = "type" /\ pump = p /\ stype = t

\* An exception is leaving the work on a schema type: out of publish_payload,
\* or out of a generator.
Raising ==
    \/ lpc = "call" /\ pc = "raised"
    \/ lpc \in {"type", "bucket"} /\ report' = "error" /\ attempted' = attempted
         /\ stype' # stype

\* C26: an exception raised by a generator or by publish_payload puts the
\* loop at the head of the next schema type of the same pump in the same
\* cycle with the error reported. The heads of the loops are passed in
\* order only: the schema types of a pump one by one, the next pump after the
\* last type, the wait after the last pump. And from the head of every
\* schema type the end of the pump's sweep is reached, and from there the
\* wait and the next cycle, whatever raised on the way: so the remaining
\* types, pumps and cycles are all come to.
C26_ExceptionCostsOneType ==
    /\ [][Raising =>
             (report' = "error" /\ lpc' = "type" /\ stype' = stype + 1
                /\ pump' = pump /\ cycle' = cycle)]_vars
    /\ [][stype' # stype =>
             \/ lpc' = "type" /\ stype' = stype + 1 /\ pump' = pump /\ cycle' = cycle
             \/ lpc = "pump" /\ stype' = 1]_vars
    /\ [][pump' # pump =>
             \/ AtType(pump, Len(SCHEMA_PAYLOADS) + 1) /\ pump' = pump + 1
             \/ lpc = "cycle" /\ pump' = 1]_vars
    /\ [][lpc' = "wait" => (lpc = "pump" /\ pump = MaxPumps + 1)]_vars
    /\ (lpc = "type") ~> (lpc = "pump")
    /\ (lpc = "pump") ~> (lpc = "type" \/ lpc = "wait")
    /\ (lpc = "wait") ~> (lpc = "pump" /\ pump = 1)

\* C26 witness: the asset generator raised for the first pump, and the loop
\* is at the head of the third schema type with the second one attempted.
C26_Witness ==
    /\ AtType(1, 3)
    /\ PlainTopic(1, 1) \notin attempted
    /\ PlainTopic(1, 2) \in attempted

\* C26 second witness: in the second cycle the sweep of the first pump
\* ended with an exception, and the sweep of the second pump has begun.
C26_WitnessLater ==
    /\ AtType(2, 1)
    /\ cycle = 2
    /\ report = "error"

\* ------------------------------------------------------------------------
\* C27
\* ------------------------------------------------------------------------

\* The broker refused the connection or the connection is reported gone.
LinkLost == client.link \in {"refused", "down"}

\* C27: a step that reports a refusal or a disconnect changes no variable
\* of the publishing loop or of the call in progress; the loop is left only
\* by a connect that raised, never by such a report; with the link refused or
\* down every cycle that starts still gets to its wait and every wait to the
\* next cycle; and a send the transport refused is returned as False and
\* reported by the loop with its failure line, the loop going on with the
\* next item.
C27_NetworkEventsNeverStopTheLoop ==
    /\ [][(client'.link \in {"refused", "down"} /\ client'.link # client.link) =>
             UNCHANGED <<SCHEMAS, pubVars, loopVars>>]_vars
    /\ [](Stopped => (report = "connection_failed" /\ cycle = 0))
    /\ [](pc = "reported_fail" => result = "False")
    /\ [][(lpc = "call" /\ pc = "reported_fail" /\ lpc' # lpc) =>
             (report' = "validation_failed" /\ AtNextItem)]_vars
    /\ (lpc = "call" /\ pc = "reported_fail") ~> (report = "validation_failed")
    /\ (lpc = "cycle") ~> (lpc = "wait")
    /\ (lpc = "wait") ~> (lpc = "cycle")

\* C27 witness: the broker refused the connection, and in the second cycle
\* a send was refused by the transport and is about to be reported.
C27_Witness ==
    /\ client.link = "refused"
    /\ cycle = 2
    /\ lpc = "call"
    /\ pc = "reported_fail"

\* C27 second witness: the connection is reported gone and a cycle has come
\* to its wait.
C27_WitnessDown ==
    /\ client.link = "down"
    /\ lpc = "wait"
    /\ cycle = 2

\* ------------------------------------------------------------------------
\* C28
\* ------------------------------------------------------------------------

\* A KeyboardInterrupt was delivered to publish_pump_data.
Signalled == report \in {"stopping", "traceback"}

\* The function is on its way out through the handler of line 821.
Leaving == lpc \in {"interrupted", "exit", "exit_status_0"}

\* C28 as stated: a KeyboardInterrupt delivered at any point after the
\* client was created takes the function out through its handler and its
\* `finally` clause.
C28_AnyPointAfterClientCreated ==
    (client.created /\ Signalled) => Leaving

\* C28, amended: a KeyboardInterrupt delivered inside the `try` of line 784
\* (from client.connect on: at a loop head, in the middle of a publish, in
\* the wait) is not handled by the per-item handler but takes the function
\* out; from then on no call is begun or continued and nothing is handed to
\* the transport; and when the function has returned, loop_stop and
\* disconnect have run exactly once.
C28_SignalInsideTryStopsCleanly ==
    /\ [](report = "stopping" => Leaving)
    /\ [](Leaving => pc = "idle" /\ ~handed)
    /\ [][Leaving => (Leaving' /\ UNCHANGED <<pubVars, attempted, reported>>)]_vars
    /\ [](lpc = "interrupted" => client.released = "no")
    /\ []((lpc \in {"exit", "exit_status_0"} /\ report = "stopping") =>
             (client.released = "once" /\ client.link = "closed"))
    /\ [][(lpc = "interrupted" /\ lpc' # lpc) =>
             (lpc' = "exit" /\ client'.released = "once")]_vars

\* C28 witness: the signal came in the middle of a publish (the call's
\* topic has no line printed), and the function has returned with the
\* client released once.
C28_Witness ==
    /\ lpc = "exit_status_0"
    /\ report = "stopping"
    /\ attempted \ reported # {}
    /\ client.released = "once"

\* C28 second witness: the signal came during the wait between two cycles.
C28_WitnessWait ==
    /\ lpc = "exit"
    /\ report = "stopping"
    /\ pump = MaxPumps + 1
    /\ attempted = reported

\* ------------------------------------------------------------------------
\* C29
\* ------------------------------------------------------------------------

\* publish_payload is about to return False.
ReturnsFalse == pc \in {"rejected", "reported_fail"}

\* C29: publish_payload returns False when the gate refused the payload and
\* when the transport answered with a code other than success, and True
\* only for a success code; the loop prints its "Validation failed" line for
\* every False, so after the return the loop's report is the same for a
\* refused payload and for a refused send, and that line is printed for
\* nothing else.
C29_FailuresReportedAlike ==
    /\ [](pc = "rejected" => (result = "False" /\ ~handed))
    /\ [](pc = "reported_fail" => (result = "False" /\ handed /\ rc # MQTT_ERR_SUCCESS))
    /\ [](pc = "reported_ok" => (result = "True" /\ rc = MQTT_ERR_SUCCESS))
    /\ [][(lpc = "call" /\ ReturnsFalse /\ lpc' \notin {"call", "interrupted"}) =>
             report' = "validation_failed"]_vars
    /\ [][(report' = "validation_failed" /\ report # "validation_failed") =>
             (lpc = "call" /\ ReturnsFalse)]_vars
    /\ [](report \in {None, "ok", "validation_failed", "error", "stopping",
                       "traceback", "connection_failed"})

\* C29 witness: the transport refused a send whose payload had passed the
\* gate; publish_payload is returning False.
C29_Witness ==
    /\ lpc = "call"
    /\ pc = "reported_fail"
    /\ result = "False"
    /\ handed

\* C29 second witness: the gate refused a payload; publish_payload is
\* returning False.
C29_WitnessRejected ==
    /\ lpc = "call"
    /\ pc = "rejected"
    /\ result = "False"

\* C29 third witness: the "Validation failed" line was printed.
C29_WitnessLine ==
    /\ report = "validation_failed"
    /\ lpc \in {"type", "item"}

\* ------------------------------------------------------------------------
\* C30
\* ------------------------------------------------------------------------

\* The client as the banner and the module-level setup describe it.
Described == ModuleSettings(env, NewClient(env.client_id))

\* C30: the client that publish_pump_data connects with has the configured
\* client id, sends the credentials only under MQTT_USE_AUTH with both
\* strings non-empty, and under MQTT_USE_TLS uses the three certificate
\* paths when all are set and the insecure mode otherwise.
C30_ConnectionAsConfigured ==
    lpc = "connect" =>
        /\ client.client_id = Described.client_id
        /\ client.credentials = Described.credentials
        /\ client.tls = Described.tls

\* C30 witness: TLS is enabled with all three paths set, the module-level
\* client was given the certificates, and the client about to connect uses
\* a bare tls_set(); authentication is disabled and the client about to
\* connect carries the credentials.
C30_Witness ==
    /\ lpc = "connect"
    /\ env.use_tls
    /\ module_client.tls = "certs"
    /\ client.tls = "default"
    /\ ~env.use_auth
    /\ ~module_client.credentials
    /\ client.credentials

====
